---- MODULE Spec2Model ----
(***************************************************************************)
(* Participation tracker (sergio0p/tracker): the OAuth2 PKCE token         *)
(* lifecycle of src/dropbox-auth.js and the debounced save pipeline and    *)
(* attendance taps of src/app.js, as one state machine.                    *)
(*                                                                         *)
(* Execution is single-threaded and event-driven: every action below is    *)
(* one run-to-completion stretch of a handler, from the event that starts  *)
(* it to its next network await (token exchange, token refresh, download,  *)
(* upload) or to its end.  An await of a promise that is already settled   *)
(* only yields to the microtask queue, where no tap, timer or network      *)
(* event can interleave, so it does not split an action.                   *)
(***************************************************************************)
EXTENDS Integers, Naturals, Sequences, FiniteSets, TLC

VARIABLES
  now,             \* Date.now(), in ms
  ticks,           \* number of clock advances so far (bounds the clock)
  localStorage,    \* TOKEN_KEY, REFRESH_KEY, EXPIRY_KEY -> stored value
  sessionStorage,  \* VERIFIER_KEY -> stored value
  urlCode,         \* TRUE iff window.location.search carries ?code=...
  page,            \* where the page's initApp() stands, or what it shows
  auth_dbx,        \* access token held by state.auth.dbx (this.dbx), or Null
  state_dbx,       \* access token held by the client in state.dbx, or Null
  tokensIssued,    \* provider: number of access tokens issued so far
  tokenExpiry,     \* history: token -> the expires_at the code stored for it
  lastExchange,    \* history: outcome of the last _handleCallback() call
  loads,           \* loadCourseData() calls awaiting the network
  saves,           \* saveCourseData() calls awaiting the network
  remote,          \* course -> the JSON document in the remote store
  currentCourseIdx,\* state.currentCourseIdx
  gridCourse,      \* course whose grid is rendered (its cells take the taps)
  gridToday,       \* `today` captured by the rendered grid's click handlers
  mode,            \* state.mode
  courseData,      \* state.courseData: course -> dataset or NoData
  saveTimeout,     \* state.saveTimeout: handle of the last debounce timer
  saveGeneration,  \* state.saveGeneration
  timers,          \* armed timers (setTimeout not yet fired nor cleared)
  dataVer,         \* history: course -> version of its in-memory dataset
  genLog,          \* history: what the timer of one observed generation did
  tapLog,          \* history: course -> the taps on its today column
  initPath,        \* history: the branch the last init() took
  lastLoad         \* history: how the last filesDownload of loadCourseData ended

clockVars  == <<now, ticks>>
storeVars  == <<localStorage, sessionStorage, urlCode>>
clientVars == <<page, auth_dbx, state_dbx>>
provVars   == <<tokensIssued, tokenExpiry>>
netVars    == <<loads, saves, remote>>
uiVars     == <<currentCourseIdx, gridCourse, gridToday, mode>>
syncVars   == <<saveTimeout, saveGeneration, timers>>
histVars   == <<dataVer, genLog, tapLog>>

vars == <<now, ticks, localStorage, sessionStorage, urlCode, page, auth_dbx,
          state_dbx, tokensIssued, tokenExpiry, lastExchange, loads, saves, remote, currentCourseIdx, gridCourse,
          gridToday, mode, courseData, saveTimeout, saveGeneration, timers,
          dataVer, genLog, tapLog, initPath, lastLoad>>

----------------------------------------------------------------------------
(* Bounds of the model *)

MaxTicks   == 3   \* clock advances
MaxTokens  == 2   \* access tokens the provider issues
MaxTaps    == 2   \* cell taps (each one schedules a save)
MaxLoads   == 1   \* loadCourseData() calls in flight at once
NumCourses == 2   \* entries of COURSES that are modelled
MaxSeq     == 3   \* cell taps of a tap sequence on one grid

(* Program constants *)

BufferMs          == 300000     \* isAuthenticated: 5-minute buffer
DefaultExpiresIn  == 14400      \* _handleCallback: default 4 hours, in s
RefreshLifetimeMs == 14400000   \* _refreshToken: 14400 * 1000
SAVE_DEBOUNCE_MS  == 500
RETRY_DELAY_MS    == 2000
TIMER_MINUTES     == 3
DayMs             == 86400000   \* toISOString().slice(0, 10): one UTC day

TOKEN_KEY    == "dbx_access_token"
REFRESH_KEY  == "dbx_refresh_token"
EXPIRY_KEY   == "dbx_token_expiry"
VERIFIER_KEY == "dbx_code_verifier"

Null    == 0        \* a missing token / handle (tokens and handles are >= 1)
NoCourse == -1      \* no grid is shown
NoStr   == <<>>     \* a missing string item (getItem gives null)
Courses == 0 .. (NumCourses - 1)

(* The clock advances by these steps: one millisecond, and the time from  *)
(* the issue of a four-hour token to one millisecond before its buffer.   *)
Jumps == {1, RefreshLifetimeMs - BufferMs - 1}

----------------------------------------------------------------------------
(* Strings of decimal digits: String(n) and parseInt(s) *)

RECURSIVE NumToString(_)
NumToString(n) == IF n < 10 THEN <<n>> ELSE Append(NumToString(n \div 10), n % 10)

RECURSIVE ParseInt(_)
ParseInt(s) ==
  IF Len(s) = 1 THEN s[1]
  ELSE 10 * ParseInt(SubSeq(s, 1, Len(s) - 1)) + s[Len(s)]

----------------------------------------------------------------------------
(* DropboxAuth: the credential store and its pure checks *)

(* A faulty isAuthenticated that never looks at the expiry *)
IsAuthenticatedAnyAge(ls, t) == ls[TOKEN_KEY] # Null

IsAuthenticated(ls, t) ==
  LET token  == ls[TOKEN_KEY]
      expiry == ls[EXPIRY_KEY]
  IN  IF token = Null THEN FALSE
      ELSE IF expiry # NoStr /\ t > ParseInt(expiry) - BufferMs THEN FALSE
      ELSE TRUE

HasRefreshToken(ls) == ls[REFRESH_KEY] # Null

(* A faulty _handleCallback that does not check the verifier it read *)
HasVerifierUnchecked(ss) == TRUE

(* _handleCallback: the stored verifier is there (else it throws) *)
HasVerifier(ss) == ss[VERIFIER_KEY] # Null

ClearTokens(ls) ==
  [ls EXCEPT ![TOKEN_KEY] = Null, ![REFRESH_KEY] = Null, ![EXPIRY_KEY] = NoStr]

(* A faulty ensureFreshToken that refreshes whenever a refresh token is    *)
(* stored, whatever the age of the access token                            *)
NeedsRefreshAlways(ls, t) == HasRefreshToken(ls)

(* ensureFreshToken() decides to refresh *)
NeedsRefresh(ls, t) == ~IsAuthenticated(ls, t) /\ HasRefreshToken(ls)

(* A faulty _refreshToken that stores a rotated refresh token as well *)
StoreRefreshedRotating(ls, newToken, t) ==
  [ls EXCEPT ![TOKEN_KEY] = newToken, ![REFRESH_KEY] = newToken,
             ![EXPIRY_KEY] = NumToString(t + RefreshLifetimeMs)]

(* _refreshToken() after refreshAccessToken() resolved with newToken *)
StoreRefreshed(ls, newToken, t) ==
  [ls EXCEPT ![TOKEN_KEY] = newToken,
             ![EXPIRY_KEY] = NumToString(t + RefreshLifetimeMs)]

(* _handleCallback() after getAccessTokenFromCode() resolved; expires_in  *)
(* 0 stands for a result without expires_in, refresh Null for a result    *)
(* without refresh_token                                                  *)
ExpiresIn(expires_in) == IF expires_in # 0 THEN expires_in ELSE DefaultExpiresIn

StoreExchanged(ls, token, refresh, expires_in, t) ==
  [ls EXCEPT ![TOKEN_KEY] = token,
             ![REFRESH_KEY] = IF refresh # Null THEN refresh ELSE @,
             ![EXPIRY_KEY] = NumToString(t + ExpiresIn(expires_in) * 1000)]

----------------------------------------------------------------------------
(* Dates: new Date(t).toISOString() is modelled as <<day, ms of the day>>, *)
(* its first ten characters (the date key) as the day number               *)

ToISOString(t) == <<t \div DayMs, t % DayMs>>
GetTime(iso)   == iso[1] * DayMs + iso[2]
GetToday(t)    == ToISOString(t)[1]

----------------------------------------------------------------------------
(* The dataset: records, sessions, normalisation *)

Students == {1}
Modes    == {"present", "late", "undo"}

AbsentRecord == [status |-> "absent", count |-> 0]

(* getOrCreateRecord: session.records with a record for studentId *)
GetOrCreateRecord(records, studentId) ==
  IF studentId \in DOMAIN records THEN records
  ELSE [k \in DOMAIN records \cup {studentId} |->
          IF k = studentId THEN AbsentRecord ELSE records[k]]

(* A faulty 3-minute rule that turns late at the threshold itself *)
EffectiveModeAtThreshold(m, start_time, record, t) ==
  IF m = "present" /\ start_time # NoStr /\ record.status = "absent"
     /\ t - GetTime(start_time) >= TIMER_MINUTES * 60 * 1000
  THEN "late" ELSE m

(* the 3-minute rule of handleCellTap *)
EffectiveMode(m, start_time, record, t) ==
  IF m = "present" /\ start_time # NoStr /\ record.status = "absent"
     /\ t - GetTime(start_time) > TIMER_MINUTES * 60 * 1000
  THEN "late" ELSE m

(* A faulty switch whose undo of the last mark clears the count only *)
TransitionKeepsStatus(record, effectiveMode) ==
  CASE effectiveMode = "present" ->
         IF record.status = "absent"
         THEN [status |-> "present", count |-> 1]
         ELSE [record EXCEPT !.count = @ + 1]
    [] effectiveMode = "late" ->
         IF record.status = "absent"
         THEN [status |-> "late", count |-> 1]
         ELSE [record EXCEPT !.status = "late"]
    [] effectiveMode = "undo" ->
         IF record.count > 1 THEN [record EXCEPT !.count = @ - 1]
         ELSE IF record.count = 1 THEN [record EXCEPT !.count = 0]
         ELSE record

(* A faulty switch whose late tap on a marked record counts as well *)
TransitionLateCounts(record, effectiveMode) ==
  CASE effectiveMode = "present" ->
         IF record.status = "absent"
         THEN [status |-> "present", count |-> 1]
         ELSE [record EXCEPT !.count = @ + 1]
    [] effectiveMode = "late" ->
         IF record.status = "absent"
         THEN [status |-> "late", count |-> 1]
         ELSE [status |-> "late", count |-> record.count + 1]
    [] effectiveMode = "undo" ->
         IF record.count > 1 THEN [record EXCEPT !.count = @ - 1]
         ELSE IF record.count = 1 THEN AbsentRecord
         ELSE record

(* A faulty switch whose undo takes the record back to absent at once *)
TransitionUndoAll(record, effectiveMode) ==
  CASE effectiveMode = "present" ->
         IF record.status = "absent"
         THEN [status |-> "present", count |-> 1]
         ELSE [record EXCEPT !.count = @ + 1]
    [] effectiveMode = "late" ->
         IF record.status = "absent"
         THEN [status |-> "late", count |-> 1]
         ELSE [record EXCEPT !.status = "late"]
    [] effectiveMode = "undo" ->
         IF record.count >= 1 THEN AbsentRecord ELSE record

(* the switch of handleCellTap *)
Transition(record, effectiveMode) ==
  CASE effectiveMode = "present" ->
         IF record.status = "absent"
         THEN [status |-> "present", count |-> 1]
         ELSE [record EXCEPT !.count = @ + 1]
    [] effectiveMode = "late" ->
         IF record.status = "absent"
         THEN [status |-> "late", count |-> 1]
         ELSE [record EXCEPT !.status = "late"]
    [] effectiveMode = "undo" ->
         IF record.count > 1 THEN [record EXCEPT !.count = @ - 1]
         ELSE IF record.count = 1 THEN AbsentRecord
         ELSE record

(* handleCellTap on one session: record, start_time, transition *)
HandleCellTap(session, studentId, m, t) ==
  LET records == GetOrCreateRecord(session.records, studentId)
      start   == IF session.start_time = NoStr THEN ToISOString(t)
                 ELSE session.start_time
      eff     == EffectiveMode(m, start, records[studentId], t)
  IN  [session EXCEPT !.start_time = start,
         !.records = [records EXCEPT
                        ![studentId] = Transition(records[studentId], eff)]]

NewSession(today) ==
  [date |-> today, start_time |-> NoStr, active |-> TRUE,
   records |-> [k \in {} |-> AbsentRecord]]

(* Array.prototype.sort by date (stable): insertion sort *)
RECURSIVE SortByDate(_)
SortByDate(ss) ==
  IF Len(ss) <= 1 THEN ss
  ELSE LET rest == SortByDate(SubSeq(ss, 1, Len(ss) - 1))
           x    == ss[Len(ss)]
           k    == Cardinality({i \in 1 .. Len(rest) : rest[i].date <= x.date})
       IN  SubSeq(rest, 1, k) \o <<x>> \o SubSeq(rest, k + 1, Len(rest))

(* index of the first session of that date (Array.prototype.find), or 0 *)
FindSession(ss, date) ==
  IF \E i \in 1 .. Len(ss) : ss[i].date = date
  THEN CHOOSE i \in 1 .. Len(ss) :
         ss[i].date = date /\ \A j \in 1 .. (i - 1) : ss[j].date # date
  ELSE 0

(* A faulty click handler that makes a session for today on every click *)
ClickSessionsAlwaysNew(ss, today, studentId, m, t) ==
  LET withToday == SortByDate(Append(ss, NewSession(today)))
      i         == FindSession(withToday, today)
  IN  [withToday EXCEPT ![i] = HandleCellTap(withToday[i], studentId, m, t)]

(* the click handler of a today cell, up to the scheduleSave call *)
ClickSessions(ss, today, studentId, m, t) ==
  LET withToday == IF FindSession(ss, today) # 0 THEN ss
                   ELSE SortByDate(Append(ss, NewSession(today)))
      i         == FindSession(withToday, today)
  IN  [withToday EXCEPT ![i] = HandleCellTap(withToday[i], studentId, m, t)]

(* A faulty filter that keeps only the sessions with a present record *)
KeepSessionIfPresent(session) ==
  \E k \in DOMAIN session.records : session.records[k].status = "present"

(* saveCourseData: the filter that drops sessions without a marked record *)
KeepSession(session) ==
  \E k \in DOMAIN session.records :
    session.records[k].status # "absent" \/ session.records[k].count > 0

CleanEmptySessions(ss) == SelectSeq(ss, KeepSession)

NoData == [loaded |-> FALSE, sessions |-> <<>>]

(* the session the click handler hands to handleCellTap *)
TodaySession(ss, today) ==
  IF FindSession(ss, today) # 0 THEN ss[FindSession(ss, today)]
  ELSE NewSession(today)

(* the record of a cell as the grid shows it: absent when there is none *)
CellRecord(ss, date, studentId) ==
  IF FindSession(ss, date) # 0
     /\ studentId \in DOMAIN ss[FindSession(ss, date)].records
  THEN ss[FindSession(ss, date)].records[studentId]
  ELSE AbsentRecord

(* start_time of the session of that date, NoStr when unset or no session *)
StartTime(ss, date) ==
  IF FindSession(ss, date) # 0 THEN ss[FindSession(ss, date)].start_time
  ELSE NoStr

(* History of the taps on the today column of one course:                  *)
(*   first   the first start_time today's session was seen with           *)
(*   taps    per student: `from` the record before the first tap, `modes`  *)
(*           state.mode at each tap, `last` what the last tap did          *)
NoTap ==
  [mode |-> "none", eff |-> "none", before |-> AbsentRecord,
   after |-> AbsentRecord, elapsed |-> 0]

StartLog(ss, today) ==
  [first |-> StartTime(ss, today),
   taps  |-> [k \in Students |->
                [from |-> CellRecord(ss, today, k), modes |-> <<>>,
                 last |-> NoTap]]]

(* what handleCellTap does on a click, step by step: the record it gets,   *)
(* the effective mode it computes and the record it leaves                 *)
TapEntry(ss, today, studentId, m, t) ==
  LET session == TodaySession(ss, today)
      before  == GetOrCreateRecord(session.records, studentId)[studentId]
      start   == IF session.start_time = NoStr THEN ToISOString(t)
                 ELSE session.start_time
  IN  [mode |-> m, eff |-> EffectiveMode(m, start, before, t),
       before |-> before,
       after |-> CellRecord(ClickSessions(ss, today, studentId, m, t),
                            today, studentId),
       elapsed |-> t - GetTime(start)]

LogTap(log, ss, today, studentId, m, t) ==
  [first |-> IF log.first # NoStr THEN log.first
             ELSE StartTime(ClickSessions(ss, today, studentId, m, t), today),
   taps  |-> [log.taps EXCEPT
                ![studentId] =
                   [@ EXCEPT !.modes = Append(@, m),
                             !.last = TapEntry(ss, today, studentId, m, t)]]]

----------------------------------------------------------------------------
(* Timers and the save pipeline (scheduleSave) *)

DebounceTimer(g, c) ==
  [kind |-> "debounce", generation |-> g, course |-> c,
   delay |-> SAVE_DEBOUNCE_MS]

RetryTimer(g, c) ==
  [kind |-> "retry", generation |-> g, course |-> c, delay |-> RETRY_DELAY_MS]

(* clearTimeout(handle): the handle of a debounce timer is its generation *)
ClearTimeout(tms, handle) ==
  {t \in tms : ~(t.kind = "debounce" /\ t.generation = handle)}

(* A faulty scheduleSave that arms its timer without clearing the pending  *)
(* one                                                                     *)
ArmDebounceKeeping(tms, handle, g, c) == tms \cup {DebounceTimer(g, c)}

(* scheduleSave: the armed timers after the call that makes generation g *)
ArmDebounce(tms, handle, g, c) ==
  ClearTimeout(tms, handle) \cup {DebounceTimer(g, c)}

(* the timer callback's guard: generation !== state.saveGeneration *)
IsCurrent(generation, current) == generation = current

(* A faulty scheduleSave that arms the retry after the first attempt       *)
(* whether it threw or not (the retry written after the try/catch)         *)
ArmAfterAlways(ok, attempt, g, c) ==
  IF attempt = 1 THEN {RetryTimer(g, c)} ELSE {}

(* A faulty scheduleSave whose retry callback retries again when it fails  *)
ArmAfterAgain(ok, attempt, g, c) ==
  IF ~ok THEN {RetryTimer(g, c)} ELSE {}

(* what the callbacks of scheduleSave arm once saveCourseData has settled: *)
(* the first attempt's catch arms the retry, the retry's catch arms none   *)
ArmAfter(ok, attempt, g, c) ==
  IF ~ok /\ attempt = 1 THEN {RetryTimer(g, c)} ELSE {}

(* History of one generation, genLog.gen, which is any one of them: what  *)
(* scheduleSave was called with and what the generation's timers did.      *)
(*   burst       the call cancelled the pending timer of the call before   *)
(*   superseded  a later call cancelled this generation's pending timer    *)
(*   later       a later call was made for the same course                 *)
(*   calls       saveCourseData calls made for the generation              *)
(*   writes      uploads sent for the generation                           *)
(*   fails       saveCourseData calls that threw                           *)
(*   retries     retry timers armed                                        *)
(*   firstOk     the first saveCourseData call resolved                    *)
(*   quiet       no scheduleSave call between this one and its first upload*)
(*   writeVer    dataset version the first upload serialised, writeCourse  *)
(*               the course it was sent for                                *)
NewLog(g) ==
  [gen |-> g, course |-> NoCourse, schedVer |-> 0, burst |-> FALSE,
   superseded |-> FALSE, later |-> FALSE, calls |-> 0, writes |-> 0,
   fails |-> 0, retries |-> 0, firstOk |-> FALSE, quiet |-> FALSE,
   writeVer |-> 0, writeCourse |-> NoCourse]

(* the history after a step of generation g that would change it to `new` *)
Log(g, new) == IF g = genLog.gen THEN new ELSE genLog

(* A faulty scheduleSave that counts the generation up twice in a call *)
ScheduleSaveCountingTwice(c, ver) ==
  LET g == saveGeneration + 2
      cancelled == {t.generation : t \in timers \ ClearTimeout(timers, saveTimeout)}
  IN  /\ timers' = ArmDebounce(timers, saveTimeout, g, c)
      /\ saveGeneration' = g
      /\ saveTimeout' = g
      /\ genLog' =
           IF g = genLog.gen
           THEN [genLog EXCEPT !.course = c, !.schedVer = ver,
                               !.burst = (cancelled # {})]
           ELSE IF genLog.gen < g
           THEN [genLog EXCEPT
                   !.superseded = @ \/ genLog.gen \in cancelled,
                   !.later = @ \/ genLog.course = c]
           ELSE genLog

(* scheduleSave(course, courseData), as called at the end of handleCellTap *)
ScheduleSave(c, ver) ==
  LET g == saveGeneration + 1
      cancelled == {t.generation : t \in timers \ ClearTimeout(timers, saveTimeout)}
  IN  /\ timers' = ArmDebounce(timers, saveTimeout, g, c)
      /\ saveGeneration' = g
      /\ saveTimeout' = g
      /\ genLog' =
           IF g = genLog.gen
           THEN [genLog EXCEPT !.course = c, !.schedVer = ver,
                               !.burst = (cancelled # {})]
           ELSE IF genLog.gen < g
           THEN [genLog EXCEPT
                   !.superseded = @ \/ genLog.gen \in cancelled,
                   !.later = @ \/ genLog.course = c]
           ELSE genLog

(* A faulty saveCourseData that serialises the dataset it was given when   *)
(* it was called, before the await of ensureFreshToken                     *)
BeginUploadOfSnapshot(s, sv, gl, afterRefresh) ==
  LET c       == s.course
      cleaned == CleanEmptySessions(s.before)
  IN  /\ courseData' = [courseData EXCEPT ![c].sessions = cleaned]
      /\ saves' = sv \cup {[s EXCEPT !.phase = "upload", !.content = cleaned,
                                     !.ver = s.verAtStart, !.token = state_dbx,
                                     !.at = now, !.afterRefresh = afterRefresh]}
      /\ genLog' =
           IF s.generation # genLog.gen THEN gl
           ELSE IF s.attempt = 1
           THEN [gl EXCEPT !.writes = @ + 1, !.writeVer = s.verAtStart,
                           !.writeCourse = c,
                           !.quiet = (saveGeneration = s.generation)]
           ELSE [gl EXCEPT !.writes = @ + 1]

(* saveCourseData from the filter on: normalise the dataset in place,      *)
(* serialise it and send the upload with the client in state.dbx           *)
BeginUpload(s, sv, gl, afterRefresh) ==
  LET c       == s.course
      cleaned == CleanEmptySessions(courseData[c].sessions)
  IN  /\ courseData' = [courseData EXCEPT ![c].sessions = cleaned]
      /\ saves' = sv \cup {[s EXCEPT !.phase = "upload", !.content = cleaned,
                                     !.ver = dataVer[c], !.token = state_dbx,
                                     !.at = now, !.afterRefresh = afterRefresh]}
      /\ genLog' =
           IF s.generation # genLog.gen THEN gl
           ELSE IF s.attempt = 1
           THEN [gl EXCEPT !.writes = @ + 1, !.writeVer = dataVer[c],
                           !.writeCourse = c,
                           !.quiet = (saveGeneration = s.generation)]
           ELSE [gl EXCEPT !.writes = @ + 1]

(* saveCourseData(course, data) up to its first network await; `before`   *)
(* and verAtStart are history: the dataset the call was given              *)
StartSave(c, g, attempt) ==
  LET s  == [generation |-> g, course |-> c, attempt |-> attempt,
             phase |-> "refresh", content |-> <<>>, ver |-> 0, token |-> Null,
             at |-> 0, afterRefresh |-> FALSE,
             before |-> courseData[c].sessions, verAtStart |-> dataVer[c]]
      gl == Log(g, [genLog EXCEPT !.calls = @ + 1])
  IN  IF NeedsRefresh(localStorage, now)
      THEN /\ saves' = saves \cup {s}
           /\ genLog' = gl
           /\ UNCHANGED courseData
      ELSE BeginUpload(s, saves, gl, FALSE)

(* the catch blocks of scheduleSave, after saveCourseData(s) has thrown *)
SaveFailed(s) ==
  /\ timers' = timers \cup ArmAfter(FALSE, s.attempt, s.generation, s.course)
  /\ genLog' = Log(s.generation,
                   [genLog EXCEPT
                      !.fails = @ + 1,
                      !.retries = @ + Cardinality(ArmAfter(FALSE, s.attempt,
                                                  s.generation, s.course))])

----------------------------------------------------------------------------
(* The environment: the clock, the provider, the remote store *)

(* the provider accepts an access token until it expires *)
TokenValid(token) == token # Null /\ now < tokenExpiry[token]

Tick(d) ==
  /\ ticks < MaxTicks
  /\ now' = now + d
  /\ ticks' = ticks + 1
  /\ UNCHANGED <<storeVars, clientVars, provVars, lastExchange, netVars, uiVars,
                 courseData, syncVars, histVars>>
  /\ UNCHANGED initPath
  /\ UNCHANGED lastLoad

----------------------------------------------------------------------------
(* The running app: taps, mode toggle, course tabs *)

(* click on a today cell of the rendered grid: renderGrid's handler, then  *)
(* handleCellTap, then scheduleSave                                        *)
TapCell(studentId) ==
  /\ page = "app"
  /\ gridCourse \in Courses
  /\ courseData[gridCourse].loaded
  /\ courseData' = [courseData EXCEPT ![gridCourse].sessions =
                      ClickSessions(@, gridToday, studentId, mode, now)]
  /\ dataVer' = [dataVer EXCEPT ![gridCourse] = @ + 1]
  /\ tapLog' = [tapLog EXCEPT ![gridCourse] =
                  LogTap(@, courseData[gridCourse].sessions, gridToday,
                         studentId, mode, now)]
  /\ ScheduleSave(gridCourse, dataVer'[gridCourse])
  /\ UNCHANGED <<clockVars, storeVars, clientVars, provVars, lastExchange, netVars,
                 uiVars>>
  /\ UNCHANGED initPath
  /\ UNCHANGED lastLoad

(* a tap while the save pipeline is observed, a tap of a tap sequence *)
Tap(studentId) == saveGeneration < MaxTaps /\ TapCell(studentId)

TapInSequence(studentId) == saveGeneration < MaxSeq /\ TapCell(studentId)

(* initModeToggle: click on a mode button *)
SetMode(m) ==
  /\ page = "app"
  /\ m # mode
  /\ mode' = m
  /\ UNCHANGED <<clockVars, storeVars, clientVars, provVars, lastExchange, netVars,
                 currentCourseIdx, gridCourse, gridToday, courseData, syncVars,
                 histVars>>
  /\ UNCHANGED initPath
  /\ UNCHANGED lastLoad

(* A faulty loadCourseData whose catch returns null for every failure *)
LoadResultSwallows(outcome) ==
  IF outcome = "ok" THEN "data" ELSE "null"

(* loadCourseData's try/catch around filesDownload: the parsed document,   *)
(* null for an error whose summary starts with path/not_found, and the     *)
(* error thrown again for any other                                        *)
LoadResult(outcome) ==
  CASE outcome = "ok" -> "data"
    [] outcome = "not_found" -> "null"
    [] OTHER -> "throws"

NoLoad == [outcome |-> "none", result |-> "none"]

(* loadCourseData(course) up to its first network await *)
StartLoad(c, ls, client) ==
  IF NeedsRefresh(ls, now)
  THEN [course |-> c, phase |-> "refresh", token |-> Null, at |-> 0,
        afterRefresh |-> FALSE]
  ELSE [course |-> c, phase |-> "download", token |-> client, at |-> now,
        afterRefresh |-> FALSE]

(* switchCourse(idx): a cached course is rendered at once, another one is  *)
(* loaded first, with the grid hidden meanwhile.  A tab is not clicked     *)
(* again while its own load is in flight.                                  *)
SwitchCourse(idx) ==
  /\ page = "app"
  /\ currentCourseIdx' = idx
  /\ IF courseData[idx].loaded
     THEN /\ gridCourse' = idx
          /\ gridToday' = GetToday(now)
          /\ UNCHANGED loads
     ELSE /\ Cardinality(loads) < MaxLoads
          /\ \A k \in loads : k.course # idx
          /\ loads' = loads \cup {StartLoad(idx, localStorage, state_dbx)}
          /\ gridCourse' = NoCourse
          /\ gridToday' = gridToday
  /\ UNCHANGED <<clockVars, storeVars, clientVars, provVars, lastExchange, saves,
                 remote, mode, courseData, syncVars, histVars>>
  /\ UNCHANGED initPath
  /\ UNCHANGED lastLoad

(* _refreshToken() after refreshAccessToken() resolved: store, _setClient *)
RefreshOk ==
  /\ tokensIssued < MaxTokens
  /\ tokensIssued' = tokensIssued + 1
  /\ tokenExpiry' = Append(tokenExpiry, now + RefreshLifetimeMs)
  /\ localStorage' = StoreRefreshed(localStorage, tokensIssued + 1, now)
  /\ auth_dbx' = tokensIssued + 1

(* ensureFreshToken() inside loadCourseData: the refresh has settled *)
LoadRefreshDone(l, ok) ==
  /\ l \in loads /\ l.phase = "refresh"
  /\ IF ok
     THEN /\ RefreshOk
          /\ loads' = (loads \ {l}) \cup
                        {[l EXCEPT !.phase = "download", !.token = state_dbx,
                                   !.at = now, !.afterRefresh = TRUE]}
          /\ UNCHANGED <<gridCourse, gridToday>>
     ELSE /\ loads' = loads \ {l}
          /\ gridCourse' = l.course
          /\ gridToday' = GetToday(now)
          /\ UNCHANGED <<localStorage, auth_dbx, provVars>>
  /\ UNCHANGED <<clockVars, sessionStorage, urlCode, page, state_dbx,
                 lastExchange, saves, remote, currentCourseIdx, mode,
                 courseData, syncVars, histVars>>
  /\ UNCHANGED initPath
  /\ UNCHANGED lastLoad

(* filesDownload has settled: JSON.parse, or null on path/not_found, or    *)
(* the error caught by switchCourse; then renderGrid                       *)
DownloadDone(l, outcome) ==
  /\ l \in loads /\ l.phase = "download"
  /\ outcome = "ok" => TokenValid(l.token) /\ remote[l.course].exists
  /\ outcome = "not_found" => TokenValid(l.token) /\ ~remote[l.course].exists
  /\ loads' = loads \ {l}
  /\ courseData' =
       CASE LoadResult(outcome) = "data" ->
              [courseData EXCEPT ![l.course] =
                 [loaded |-> TRUE, sessions |-> remote[l.course].sessions]]
         [] LoadResult(outcome) = "null" ->
              [courseData EXCEPT ![l.course] = NoData]
         [] OTHER -> courseData
  /\ lastLoad' = [outcome |-> outcome, result |-> LoadResult(outcome)]
  /\ dataVer' = IF outcome = "ok"
                THEN [dataVer EXCEPT ![l.course] = remote[l.course].ver]
                ELSE dataVer
  /\ gridCourse' = l.course
  /\ gridToday' = GetToday(now)
  /\ tapLog' = [tapLog EXCEPT ![l.course] =
                  StartLog(courseData'[l.course].sessions, gridToday')]
  /\ UNCHANGED <<clockVars, storeVars, clientVars, provVars, lastExchange, saves,
                 remote, currentCourseIdx, mode, syncVars, genLog>>
  /\ UNCHANGED initPath

----------------------------------------------------------------------------
(* The save pipeline: timer callbacks and the settling of saveCourseData *)

(* the debounce timer armed by scheduleSave fires *)
TimerFire(tm) ==
  /\ tm \in timers /\ tm.kind = "debounce"
  /\ timers' = timers \ {tm}
  /\ IF IsCurrent(tm.generation, saveGeneration)
     THEN StartSave(tm.course, tm.generation, 1)
     ELSE UNCHANGED <<saves, genLog, courseData>>
  /\ UNCHANGED <<clockVars, storeVars, clientVars, provVars, lastExchange, loads,
                 remote, uiVars, saveTimeout, saveGeneration, dataVer, tapLog>>
  /\ UNCHANGED initPath
  /\ UNCHANGED lastLoad

(* the retry timer armed by the first attempt's catch fires *)
RetryFire(tm) ==
  /\ tm \in timers /\ tm.kind = "retry"
  /\ timers' = timers \ {tm}
  /\ StartSave(tm.course, tm.generation, 2)
  /\ UNCHANGED <<clockVars, storeVars, clientVars, provVars, lastExchange, loads,
                 remote, uiVars, saveTimeout, saveGeneration, dataVer, tapLog>>
  /\ UNCHANGED initPath
  /\ UNCHANGED lastLoad

(* ensureFreshToken() inside saveCourseData: the refresh has settled *)
SaveRefreshDone(s, ok) ==
  /\ s \in saves /\ s.phase = "refresh"
  /\ IF ok
     THEN /\ RefreshOk
          /\ BeginUpload(s, saves \ {s}, genLog, TRUE)
          /\ UNCHANGED timers
     ELSE /\ saves' = saves \ {s}
          /\ SaveFailed(s)
          /\ UNCHANGED <<localStorage, auth_dbx, provVars, courseData>>
  /\ UNCHANGED <<clockVars, sessionStorage, urlCode, page, state_dbx,
                 lastExchange, loads, remote, uiVars, saveTimeout,
                 saveGeneration, dataVer, tapLog>>
  /\ UNCHANGED initPath
  /\ UNCHANGED lastLoad

(* filesUpload has settled: the store holds the uploaded document, or the  *)
(* call threw                                                              *)
UploadDone(s, ok) ==
  /\ s \in saves /\ s.phase = "upload"
  /\ ok => TokenValid(s.token)
  /\ saves' = saves \ {s}
  /\ IF ok
     THEN /\ remote' = [remote EXCEPT ![s.course] =
                          [exists |-> TRUE, sessions |-> s.content,
                           ver |-> s.ver]]
          /\ timers' = timers \cup ArmAfter(TRUE, s.attempt, s.generation,
                                            s.course)
          /\ genLog' = Log(s.generation,
                           [genLog EXCEPT
                              !.firstOk = @ \/ s.attempt = 1,
                              !.retries = @ + Cardinality(ArmAfter(TRUE,
                                           s.attempt, s.generation, s.course))])
     ELSE /\ SaveFailed(s)
          /\ UNCHANGED remote
  /\ UNCHANGED <<clockVars, storeVars, clientVars, provVars, lastExchange, loads,
                 uiVars, courseData, saveTimeout, saveGeneration, dataVer,
                 tapLog>>
  /\ UNCHANGED initPath
  /\ UNCHANGED lastLoad

----------------------------------------------------------------------------
(* Page lifecycle: initApp(), DropboxAuth.init(), startAuth() *)

NoCredentials ==
  [k \in {TOKEN_KEY, REFRESH_KEY, EXPIRY_KEY} |->
     IF k = EXPIRY_KEY THEN NoStr ELSE Null]


(* a freshly loaded document: the `state` object of app.js as declared *)
FreshPage ==
  /\ auth_dbx' = Null /\ state_dbx' = Null
  /\ loads' = {} /\ saves' = {} /\ timers' = {}
  /\ saveTimeout' = Null /\ saveGeneration' = 0
  /\ currentCourseIdx' = 0 /\ mode' = "present"
  /\ gridCourse' = NoCourse /\ gridToday' = 0
  /\ courseData' = [c \in Courses |-> NoData]
  /\ dataVer' = [c \in Courses |-> 0]
  /\ genLog' = NewLog(genLog.gen)
  /\ tapLog' = [c \in Courses |-> StartLog(<<>>, 0)]
  /\ lastLoad' = NoLoad

(* initApp() after init() returned true: state.dbx = getClient(), the UI   *)
(* is shown and switchCourse(0) starts loading the first course            *)
EnterApp(ls, client) ==
  /\ page' = "app"
  /\ state_dbx' = client
  /\ currentCourseIdx' = 0
  /\ loads' = {StartLoad(0, ls, client)}
  /\ UNCHANGED <<saves, remote, gridCourse, gridToday, mode, courseData,
                 syncVars, histVars>>

(* DOMContentLoaded: initApp() and init() up to the first network await *)
InitApp ==
  /\ page = "loading"
  /\ CASE urlCode /\ ~HasVerifier(sessionStorage) ->
            /\ page' = "failed"
            /\ lastExchange' = [result |-> "missing_verifier"]
            /\ initPath' = "missing_verifier"
            /\ UNCHANGED <<auth_dbx, state_dbx, netVars, uiVars, courseData,
                           syncVars, histVars>>
       [] urlCode /\ HasVerifier(sessionStorage) ->
            /\ page' = "exchanging"
            /\ initPath' = "exchange"
            /\ UNCHANGED <<auth_dbx, state_dbx, netVars, uiVars, courseData,
                           syncVars, histVars, lastExchange>>
       [] ~urlCode /\ IsAuthenticated(localStorage, now) ->
            /\ auth_dbx' = localStorage[TOKEN_KEY]
            /\ EnterApp(localStorage, localStorage[TOKEN_KEY])
            /\ initPath' = "token"
            /\ UNCHANGED lastExchange
       [] ~urlCode /\ ~IsAuthenticated(localStorage, now)
          /\ HasRefreshToken(localStorage) ->
            /\ page' = "refreshing"
            /\ initPath' = "refresh"
            /\ UNCHANGED <<auth_dbx, state_dbx, netVars, uiVars, courseData,
                           syncVars, histVars, lastExchange>>
       [] OTHER ->
            /\ page' = "authScreen"
            /\ initPath' = "unauthenticated"
            /\ UNCHANGED <<auth_dbx, state_dbx, netVars, uiVars, courseData,
                           syncVars, histVars, lastExchange>>
  /\ UNCHANGED <<clockVars, storeVars, provVars>>
  /\ UNCHANGED lastLoad

(* _handleCallback: getAccessTokenFromCode has settled; on success the     *)
(* tokens are stored, the verifier removed, and init() cleans the URL      *)
ExchangeDone(ok, withRefresh, expires_in) ==
  /\ page = "exchanging"
  /\ IF ok
     THEN LET token == tokensIssued + 1
              ls == StoreExchanged(localStorage, token,
                                   IF withRefresh THEN token ELSE Null,
                                   expires_in, now)
          IN  /\ tokensIssued < MaxTokens
              /\ tokensIssued' = token
              /\ tokenExpiry' =
                   Append(tokenExpiry, now + ExpiresIn(expires_in) * 1000)
              /\ localStorage' = ls
              /\ sessionStorage' = [sessionStorage EXCEPT ![VERIFIER_KEY] = Null]
              /\ auth_dbx' = token
              /\ urlCode' = FALSE
              /\ lastExchange' = [result |-> "ok"]
              /\ EnterApp(ls, token)
     ELSE /\ page' = "failed"
          /\ lastExchange' = [result |-> "failed"]
          /\ UNCHANGED <<storeVars, provVars, auth_dbx, state_dbx, netVars,
                         uiVars, courseData, syncVars, histVars>>
  /\ UNCHANGED clockVars
  /\ UNCHANGED initPath
  /\ UNCHANGED lastLoad

(* init() step 3: the silent refresh has settled *)
InitRefreshDone(ok) ==
  /\ page = "refreshing"
  /\ IF ok
     THEN /\ RefreshOk
          /\ EnterApp(localStorage', tokensIssued + 1)
     ELSE /\ localStorage' = ClearTokens(localStorage)
          /\ page' = "authScreen"
          /\ UNCHANGED <<provVars, auth_dbx, state_dbx, netVars, uiVars,
                         courseData, syncVars, histVars>>
  /\ UNCHANGED <<clockVars, sessionStorage, urlCode, lastExchange>>
  /\ UNCHANGED initPath
  /\ UNCHANGED lastLoad

(* click on Connect: startAuth() stores the verifier and navigates away *)
StartAuth ==
  /\ page = "authScreen"
  /\ sessionStorage' = [sessionStorage EXCEPT ![VERIFIER_KEY] = 1]
  /\ page' = "away"
  /\ lastExchange' = [result |-> "none"]
  /\ FreshPage
  /\ UNCHANGED <<clockVars, localStorage, urlCode, provVars, remote>>
  /\ UNCHANGED initPath

(* the provider redirects back with ?code=..., or the user comes back      *)
(* without granting access                                                 *)
ProviderRedirect(granted) ==
  /\ page = "away"
  /\ page' = "loading"
  /\ urlCode' = (granted \/ urlCode)
  /\ UNCHANGED <<clockVars, localStorage, sessionStorage, provVars, lastExchange,
                 auth_dbx, state_dbx, netVars, uiVars, courseData, syncVars,
                 histVars>>
  /\ UNCHANGED initPath
  /\ UNCHANGED lastLoad

(* the user reloads the page, or opens its address in a new tab, which     *)
(* has an empty sessionStorage                                             *)
Reload(newTab) ==
  /\ page \in {"failed", "authScreen", "app"}
  /\ page' = "loading"
  /\ sessionStorage' = IF newTab
                       THEN [sessionStorage EXCEPT ![VERIFIER_KEY] = Null]
                       ELSE sessionStorage
  /\ FreshPage
  /\ UNCHANGED <<clockVars, localStorage, urlCode, provVars, lastExchange, remote>>
  /\ UNCHANGED initPath

----------------------------------------------------------------------------
(* Initial states and specifications *)

T0 == DayMs   \* the clock at the start: the first millisecond of day 1

PastSession ==
  [date |-> GetToday(T0) - 1, start_time |-> ToISOString(T0 - DayMs),
   active |-> TRUE,
   records |-> [k \in Students |-> [status |-> "present", count |-> 1]]]

NotFoundFile == [exists |-> FALSE, sessions |-> <<>>, ver |-> 0]
EmptyFile    == [exists |-> TRUE, sessions |-> <<>>, ver |-> 0]
PastFile     == [exists |-> TRUE, sessions |-> <<PastSession>>, ver |-> 0]

InitialRemotes ==
  {r \in [Courses -> {NotFoundFile, EmptyFile, PastFile}] :
     /\ r[0] # NotFoundFile
     /\ \A c \in Courses \ {0} : r[c] # PastFile}

(* A browser profile that never ran the app opens the page *)
InitAuth ==
  /\ now = T0 /\ ticks = 0
  /\ localStorage = NoCredentials
  /\ sessionStorage = [k \in {VERIFIER_KEY} |-> Null]
  /\ urlCode = FALSE
  /\ page = "loading"
  /\ auth_dbx = Null /\ state_dbx = Null
  /\ tokensIssued = 0 /\ tokenExpiry = <<>>
  /\ lastExchange = [result |-> "none"]
  /\ loads = {} /\ saves = {}
  /\ remote \in InitialRemotes
  /\ currentCourseIdx = 0 /\ gridCourse = NoCourse /\ gridToday = 0
  /\ mode = "present"
  /\ courseData = [c \in Courses |-> NoData]
  /\ saveTimeout = Null /\ saveGeneration = 0 /\ timers = {}
  /\ dataVer = [c \in Courses |-> 0]
  /\ genLog = NewLog(1)
  /\ tapLog = [c \in Courses |-> StartLog(<<>>, 0)]
  /\ initPath = "none"
  /\ lastLoad = NoLoad

(* The running app somewhat later.  initApp() ran to its end at T0: the    *)
(* code was exchanged for token 1 and a refresh token.  Since then every   *)
(* course tab has been opened, so every dataset is cached, and the grid of *)
(* course 0 is shown again; a mode button may have been clicked, nothing   *)
(* was tapped.  The clock reads T0 still, or the page was left open until  *)
(* token 1 is inside its expiry buffer.                                    *)
IdleTimes == {0, RefreshLifetimeMs - BufferMs + 1}

Init ==
  /\ now \in {T0 + d : d \in IdleTimes} /\ ticks = 0
  /\ localStorage = StoreExchanged(NoCredentials, 1, 1, DefaultExpiresIn, T0)
  /\ sessionStorage = [k \in {VERIFIER_KEY} |-> Null]
  /\ urlCode = FALSE
  /\ page = "app"
  /\ auth_dbx = 1 /\ state_dbx = 1
  /\ tokensIssued = 1 /\ tokenExpiry = <<T0 + DefaultExpiresIn * 1000>>
  /\ lastExchange = [result |-> "ok"]
  /\ loads = {} /\ saves = {}
  /\ remote = [c \in Courses |-> IF c = 0 THEN PastFile ELSE EmptyFile]
  /\ currentCourseIdx = 0 /\ gridCourse = 0 /\ gridToday = GetToday(T0)
  /\ mode \in Modes
  /\ courseData = [c \in Courses |->
                     [loaded |-> TRUE, sessions |-> remote[c].sessions]]
  /\ saveTimeout = Null /\ saveGeneration = 0 /\ timers = {}
  /\ dataVer = [c \in Courses |-> 0]
  /\ genLog \in {NewLog(g) : g \in 1 .. MaxTaps}
  /\ tapLog = [c \in Courses |-> StartLog(courseData[c].sessions, gridToday)]
  /\ initPath = "exchange"
  /\ lastLoad = [outcome |-> "ok", result |-> "data"]

Outcomes == {"ok", "not_found", "error"}

(* the token lifecycle: page loads, authorisation, course loads *)
NextAuth ==
  \/ \E d \in Jumps : Tick(d)
  \/ InitApp
  \/ \E ok \in BOOLEAN, withRefresh \in BOOLEAN,
        expires_in \in {0, DefaultExpiresIn} :
       ExchangeDone(ok, withRefresh, expires_in)
  \/ \E ok \in BOOLEAN : InitRefreshDone(ok)
  \/ StartAuth
  \/ \E granted \in BOOLEAN : ProviderRedirect(granted)
  \/ \E newTab \in BOOLEAN : Reload(newTab)
  \/ \E idx \in Courses : SwitchCourse(idx)
  \/ \E l \in loads, ok \in BOOLEAN : LoadRefreshDone(l, ok)
  \/ \E l \in loads, outcome \in Outcomes : DownloadDone(l, outcome)

SpecAuth == InitAuth /\ [][NextAuth]_vars

(* the running app: taps, tabs, timers, saves *)
Next ==
  \/ \E studentId \in Students : Tap(studentId)
  \/ \E idx \in Courses : SwitchCourse(idx)
  \/ \E tm \in timers : TimerFire(tm)
  \/ \E tm \in timers : RetryFire(tm)
  \/ \E s \in saves, ok \in BOOLEAN : SaveRefreshDone(s, ok)
  \/ \E s \in saves, ok \in BOOLEAN : UploadDone(s, ok)

Spec == Init /\ [][Next]_vars

(* The grid of course 0 on the first millisecond of day 1.  The file that  *)
(* was loaded holds a past session and, if the app was used earlier today, *)
(* today's session with the student's record; its start_time is T0.        *)
StoredRecords ==
  {[status |-> "present", count |-> 1], [status |-> "late", count |-> 1],
   [status |-> "present", count |-> 2]}

StoredToday(r) ==
  [date |-> GetToday(T0), start_time |-> ToISOString(T0), active |-> TRUE,
   records |-> [k \in Students |-> r]]

(* a session of two days ago in which nobody was marked, as a file not    *)
(* written by saveCourseData may hold                                      *)
UnmarkedSession ==
  [date |-> GetToday(T0) - 2, start_time |-> NoStr, active |-> TRUE,
   records |-> [k \in Students |-> AbsentRecord]]

StoredFiles ==
  {<<PastSession>>, <<UnmarkedSession, PastSession>>} \cup
  {<<PastSession, StoredToday(r)>> : r \in StoredRecords}

(* the clock between taps: seconds, and one second short of the 3 minutes *)
TapJumps == {1000, (TIMER_MINUTES * 60 - 1) * 1000}

InitTap ==
  /\ now = T0 /\ ticks = 0
  /\ localStorage = StoreExchanged(NoCredentials, 1, 1, DefaultExpiresIn, T0)
  /\ sessionStorage = [k \in {VERIFIER_KEY} |-> Null]
  /\ urlCode = FALSE
  /\ page = "app"
  /\ auth_dbx = 1 /\ state_dbx = 1
  /\ tokensIssued = 1 /\ tokenExpiry = <<T0 + DefaultExpiresIn * 1000>>
  /\ lastExchange = [result |-> "ok"]
  /\ loads = {} /\ saves = {}
  /\ \E f \in StoredFiles :
       remote = [c \in Courses |->
                   IF c = 0 THEN [exists |-> TRUE, sessions |-> f, ver |-> 0]
                   ELSE EmptyFile]
  /\ currentCourseIdx = 0 /\ gridCourse = 0 /\ gridToday = GetToday(T0)
  /\ mode \in Modes
  /\ courseData = [c \in Courses |->
                     [loaded |-> TRUE, sessions |-> remote[c].sessions]]
  /\ saveTimeout = Null /\ saveGeneration = 0 /\ timers = {}
  /\ dataVer = [c \in Courses |-> 0]
  /\ genLog = NewLog(1)
  /\ tapLog = [c \in Courses |-> StartLog(courseData[c].sessions, gridToday)]
  /\ initPath = "exchange"
  /\ lastLoad = [outcome |-> "ok", result |-> "data"]

(* taps on one grid: the clock, the mode buttons, the cells, the saves;   *)
(* the network is fast here: an upload settles before the next event       *)
NextTap ==
  \/ \E d \in TapJumps : saves = {} /\ Tick(d)
  \/ \E m \in Modes : saves = {} /\ SetMode(m)
  \/ \E studentId \in Students : saves = {} /\ TapInSequence(studentId)
  \/ \E tm \in timers : saves = {} /\ TimerFire(tm)
  \/ \E s \in saves : UploadDone(s, TRUE)

SpecTap == InitTap /\ [][NextTap]_vars

----------------------------------------------------------------------------
(* Properties *)

(* the download and upload requests that are on the wire *)
Sent == {l \in loads : l.phase = "download"} \cup
        {s \in saves : s.phase = "upload"}

(* C1: while a refresh token is stored, every download or upload request   *)
(* carries an access token that was outside its 5-minute expiry buffer     *)
(* when the request started; in particular a request sent after            *)
(* ensureFreshToken() refreshed carries the refreshed token.               *)
C1_RequestCarriesFreshToken ==
  HasRefreshToken(localStorage) =>
    \A r \in Sent : r.at < tokenExpiry[r.token] - BufferMs

(* C2: the version of the document in the remote store never goes back:    *)
(* no upload that completes leaves the store with an older snapshot of     *)
(* the dataset than it held.                                               *)
C2_RemoteNeverReverts ==
  [][\A c \in Courses : remote'[c].ver >= remote[c].ver]_vars

(* C3: a scheduleSave call whose timer was cancelled by the next call      *)
(* causes no saveCourseData call and no upload; a call whose first         *)
(* saveCourseData resolved caused exactly one upload, for the course of    *)
(* that call, and if no scheduleSave call came between the call and the    *)
(* upload the upload serialised the dataset as it was at the call.         *)
C3_BurstWritesOnce ==
  /\ genLog.superseded => genLog.calls = 0 /\ genLog.writes = 0
  /\ genLog.firstOk =>
       /\ ~genLog.superseded
       /\ genLog.writes = 1
       /\ genLog.writeCourse = genLog.course
       /\ genLog.quiet => genLog.writeVer = genLog.schedVer

(* C3 witness: the last call of a burst of two or more, written once *)
C3_Witness ==
  genLog.burst /\ genLog.firstOk /\ genLog.quiet /\ genLog.writes = 1

(* C4: once no debounce timer is pending, saveCourseData has been called   *)
(* for every scheduleSave call that was the last one made for its file.    *)
C4_EveryScheduledFileIsAttempted ==
  ( /\ genLog.course # NoCourse
    /\ ~genLog.later
    /\ \A tm \in timers : tm.kind # "debounce" )
  => genLog.calls >= 1

(* C5: a fired debounce timer calls saveCourseData at most twice; the      *)
(* second call is made by one retry timer of 2 s, armed if and only if the *)
(* first call threw; after a second failure nothing of the generation is   *)
(* left pending.                                                           *)
C5_AtMostOneRetry ==
  /\ genLog.calls <= 2
  /\ genLog.retries = (IF genLog.fails >= 1 THEN 1 ELSE 0)
  /\ genLog.calls <= 1 + genLog.retries
  /\ genLog.calls >= 1 => ~genLog.superseded
  /\ \A tm \in timers : tm.kind = "retry" => tm.delay = 2000
  /\ genLog.fails = 2 =>
       /\ \A tm \in timers : tm.generation # genLog.gen
       /\ \A s \in saves : s.generation # genLog.gen

(* C5 witness: the first save and its retry have both failed *)
C5_Witness == genLog.calls = 2 /\ genLog.fails = 2 /\ genLog.retries = 1

(* C6: when a saveCourseData call fails and no cell was tapped since the   *)
(* call started, the in-memory dataset is what it was when the call        *)
(* started.                                                                *)
C6_FailedSaveKeepsDataset ==
  [][\A s \in saves :
       ( /\ s.generation = genLog.gen
         /\ s \notin saves'
         /\ genLog'.fails = genLog.fails + 1
         /\ dataVer[s.course] = s.verAtStart )
       => courseData'[s.course].sessions = s.before]_vars

(* a step in which a token refresh fails: the one of init(), or the one    *)
(* of ensureFreshToken() in loadCourseData or saveCourseData               *)
RefreshFails ==
  \/ page = "refreshing" /\ page' = "authScreen"
  \/ /\ page = "app" /\ page' = "app" /\ tokensIssued' = tokensIssued
     /\ \/ \E l \in loads : l.phase = "refresh" /\ l \notin loads'
        \/ \E s \in saves : s.phase = "refresh" /\ s \notin saves'

(* C7: whenever a token refresh fails, the access token, the refresh token *)
(* and the expiry are erased from the store.                               *)
C7_RefreshFailureClearsCredentials ==
  [][RefreshFails => localStorage' = NoCredentials]_vars

(* C8: after a code exchange attempt, whatever its outcome, no PKCE        *)
(* verifier is stored.                                                     *)
C8_VerifierGoneAfterExchange ==
  lastExchange.result \in {"ok", "failed", "missing_verifier"}
    => sessionStorage[VERIFIER_KEY] = Null

(* C9: after init() has sent an authorization code to the provider,        *)
(* whatever the outcome, the URL carries no code, and no init() exchanges  *)
(* that code again.                                                        *)
C9_CodeStrippedAfterExchange ==
  lastExchange.result \in {"ok", "failed"}
    => ~urlCode /\ page # "exchanging"

(* C10: isAuthenticated() is true if and only if an access token is stored *)
(* and now < expires_at - 300000 ms.                                       *)
C10_IsAuthenticatedBuffer ==
  IsAuthenticated(localStorage, now) <=>
    ( /\ localStorage[TOKEN_KEY] # Null
      /\ now < ParseInt(localStorage[EXPIRY_KEY]) - 300000 )

(* a step in which init() takes its decision *)
InitDecides == page = "loading" /\ page' # "loading"

(* the stored access token is outside, resp. inside, its 5-minute buffer *)
StoredTokenFresh ==
  /\ localStorage[TOKEN_KEY] # Null
  /\ now < ParseInt(localStorage[EXPIRY_KEY]) - 300000

StoredTokenStale ==
  \/ localStorage[TOKEN_KEY] = Null
  \/ now > ParseInt(localStorage[EXPIRY_KEY]) - 300000

C12_MissingVerifier ==
  [][(InitDecides /\ urlCode /\ sessionStorage[VERIFIER_KEY] = Null) =>
       /\ page' = "failed"
       /\ lastExchange'.result = "missing_verifier"
       /\ localStorage' = localStorage
       /\ tokensIssued' = tokensIssued]_vars

(* C12 witness: the exchange failed for want of a verifier while an access *)
(* token was stored                                                        *)
C12_Witness ==
  /\ initPath = "missing_verifier" /\ page = "failed"
  /\ localStorage[TOKEN_KEY] # Null

(* a step in which _refreshToken() succeeds (the provider issues a token   *)
(* and no code exchange is under way)                                      *)
RefreshSucceeds == tokensIssued' = tokensIssued + 1 /\ page # "exchanging"

(* a step in which the _refreshToken() called by ensureFreshToken() throws *)
RefreshThrows ==
  /\ page = "app" /\ page' = "app" /\ tokensIssued' = tokensIssued
  /\ \/ \E l \in loads : l.phase = "refresh" /\ l \notin loads'
     \/ \E s \in saves : s.phase = "refresh" /\ s \notin saves'

(* C13: a successful refresh stores the new access token in place of the   *)
(* old one, sets the expiry to now + 4 hours and leaves the refresh token  *)
(* as it was; a refresh that fails changes none of the three.              *)
C13_RefreshFrame ==
  [][/\ RefreshSucceeds =>
          /\ localStorage'[TOKEN_KEY] = tokensIssued'
          /\ localStorage'[TOKEN_KEY] # localStorage[TOKEN_KEY]
          /\ ParseInt(localStorage'[EXPIRY_KEY]) = now + 4 * 60 * 60 * 1000
          /\ localStorage'[REFRESH_KEY] = localStorage[REFRESH_KEY]
     /\ RefreshThrows => localStorage' = localStorage]_vars

(* C13 witness: init() has refreshed a stale token *)
C13_Witness ==
  /\ initPath = "refresh" /\ page = "app"
  /\ localStorage[TOKEN_KEY] = 2 /\ localStorage[REFRESH_KEY] = 1

(* every record held in memory, in an upload or in the remote store *)
AllRecords ==
  LET Of(ss) == {ss[i].records[k] :
                   i \in 1 .. Len(ss), k \in Students} IN
  UNION ( {Of(courseData[c].sessions) : c \in Courses} \cup
          {Of(remote[c].sessions) : c \in Courses} \cup
          {Of(s.content) : s \in saves} )

(* C14: every record reached by taps, in any mode and at any time, from    *)
(* records with status = absent <=> count = 0 has status = absent <=>      *)
(* count = 0 and a count that is a natural number.                         *)
C14_AbsentIffZero ==
  \A r \in AllRecords :
    /\ r.status \in {"absent", "present", "late"}
    /\ r.count \in Nat
    /\ r.status = "absent" <=> r.count = 0

(* C14 witness: the third tap on a cell took its record back to absent *)
C14_Witness ==
  \E k \in Students :
    LET l == tapLog[0].taps[k].last IN
      /\ l.eff = "undo" /\ l.before.count = 1 /\ l.after = AbsentRecord
      /\ Len(tapLog[0].taps[k].modes) = 3
      /\ CellRecord(courseData[0].sessions, gridToday, k) = l.after

(* the transition table, by rows *)
TableRow(before, eff) ==
  CASE eff = "present" /\ before.status = "absent" ->
         [status |-> "present", count |-> 1]
    [] eff = "present" /\ before.status \in {"present", "late"} ->
         [status |-> before.status, count |-> before.count + 1]
    [] eff = "late" /\ before.status = "absent" ->
         [status |-> "late", count |-> 1]
    [] eff = "late" /\ before.status \in {"present", "late"} ->
         [status |-> "late", count |-> before.count]
    [] eff = "undo" /\ before.count > 1 ->
         [status |-> before.status, count |-> before.count - 1]
    [] eff = "undo" /\ before.count = 1 ->
         [status |-> "absent", count |-> 0]
    [] eff = "undo" /\ before.count = 0 -> before

(* C15: the record a tap leaves is the row of the transition table for the *)
(* record it found and the effective mode.                                 *)
C15_TransitionTable ==
  \A c \in Courses, k \in Students :
    LET l == tapLog[c].taps[k].last IN
      l.mode # "none" => l.after = TableRow(l.before, l.eff)

(* C15 witness: a late tap on a record that was present with count 2 *)
C15_Witness ==
  \E k \in Students :
    LET l == tapLog[0].taps[k].last IN
      /\ l.eff = "late"
      /\ l.before = [status |-> "present", count |-> 2]
      /\ l.after = [status |-> "late", count |-> 2]

(* C16: a present tap on an absent record marks it late if and only if     *)
(* more than 180 s have passed since the session's start_time, and present *)
(* otherwise (also at 180 s exactly); a present tap on a record that is    *)
(* present or late keeps its status, and late and undo taps act as late    *)
(* and undo whatever the time.                                             *)
C16_GracePeriod ==
  \A c \in Courses, k \in Students :
    LET l == tapLog[c].taps[k].last IN
      /\ (l.mode = "present" /\ l.before.status = "absent") =>
           l.after = IF l.elapsed > 180 * 1000
                     THEN [status |-> "late", count |-> 1]
                     ELSE [status |-> "present", count |-> 1]
      /\ (l.mode = "present" /\ l.before.status # "absent") =>
           l.after = [status |-> l.before.status, count |-> l.before.count + 1]
      /\ l.mode = "late" => l.after = TableRow(l.before, "late")
      /\ l.mode = "undo" => l.after = TableRow(l.before, "undo")

(* C16 witness: a present tap 181 s after start_time marked an absent      *)
(* record late                                                             *)
C16_Witness ==
  \E k \in Students :
    LET l == tapLog[0].taps[k].last IN
      /\ l.mode = "present" /\ l.before = AbsentRecord
      /\ l.elapsed = 181 * 1000
      /\ l.after = [status |-> "late", count |-> 1]

(* the taps on cell k of course c started from an absent record and all    *)
(* fell within 180 s of the session's first start_time                     *)
FromAbsentInGrace(c, k) ==
  /\ tapLog[c].taps[k].from = AbsentRecord
  /\ tapLog[c].first # NoStr
  /\ now - GetTime(tapLog[c].first) <= 180 * 1000

AllPresent(seq) == \A i \in 1 .. Len(seq) : seq[i] = "present"

(* C17: from an absent record and within the grace period, n present taps  *)
(* yield {present, n} (so present, present, present yields {present, 3});  *)
(* k >= 2 present taps and one undo yield what k - 1 present taps yield    *)
(* (so present, present, undo yields {present, 1}); present, undo, undo    *)
(* yields {absent, 0}.                                                     *)
C17_TapSequences ==
  \A c \in Courses, k \in Students :
    LET seq  == tapLog[c].taps[k].modes
        n    == Len(seq)
        cell == CellRecord(courseData[c].sessions, gridToday, k)
    IN  FromAbsentInGrace(c, k) =>
          /\ (n >= 1 /\ AllPresent(seq)) =>
               cell = [status |-> "present", count |-> n]
          /\ (n >= 3 /\ AllPresent(SubSeq(seq, 1, n - 1)) /\ seq[n] = "undo") =>
               cell = [status |-> "present", count |-> n - 2]
          /\ seq = <<"present", "undo", "undo">> => cell = AbsentRecord

(* C17 witness: present, present, undo on an absent record *)
C17_Witness ==
  \E k \in Students :
    /\ FromAbsentInGrace(0, k)
    /\ tapLog[0].taps[k].modes = <<"present", "present", "undo">>
    /\ CellRecord(courseData[0].sessions, gridToday, k) =
         [status |-> "present", count |-> 1]

(* C17 as the specification words it: present, present, present yields     *)
(* {present, 3}; present, present, undo yields {present, 2}; present,      *)
(* undo, undo yields {absent, 0}.                                          *)
C17_SequencesAsWritten ==
  \A c \in Courses, k \in Students :
    LET seq  == tapLog[c].taps[k].modes
        cell == CellRecord(courseData[c].sessions, gridToday, k)
    IN  FromAbsentInGrace(c, k) =>
          /\ seq = <<"present", "present", "present">> =>
               cell = [status |-> "present", count |-> 3]
          /\ seq = <<"present", "present", "undo">> =>
               cell = [status |-> "present", count |-> 2]
          /\ seq = <<"present", "undo", "undo">> => cell = AbsentRecord

(* C18: the start_time of today's session, once set, is the one it was     *)
(* first set to: no later tap, mode change or save gives the session of    *)
(* that date another start_time.                                           *)
C18_StartTimeSetOnce ==
  \A c \in Courses :
    LET st == StartTime(courseData[c].sessions, gridToday) IN
      (tapLog[c].first # NoStr /\ st # NoStr) => st = tapLog[c].first

(* every record of the session is {status: absent, count: 0} *)
AllAbsentZero(session) ==
  \A k \in DOMAIN session.records :
    session.records[k] = [status |-> "absent", count |-> 0]

(* the sessions of ss that are not all-absent, in the order of ss *)
MarkedSessions(ss) ==
  LET kept == {j \in 1 .. Len(ss) : ~AllAbsentZero(ss[j])}
      Nth(i) == CHOOSE j \in kept : Cardinality({k \in kept : k <= j}) = i
  IN  [i \in 1 .. Cardinality(kept) |-> ss[Nth(i)]]

(* C19: the document an upload carries holds exactly the sessions of the   *)
(* dataset that are not all {absent, 0}, unchanged and in order;           *)
(* normalising it again, or normalising the document in the remote store   *)
(* once it was written, changes nothing.                                   *)
C19_Normalisation ==
  /\ \A s \in saves :
       (s.phase = "upload" /\ ~s.afterRefresh) =>
         /\ s.content = MarkedSessions(s.before)
         /\ CleanEmptySessions(s.content) = s.content
  /\ \A c \in Courses :
       remote[c].ver > 0 =>
         CleanEmptySessions(remote[c].sessions) = remote[c].sessions

(* C19 witness: an upload left out the first of three sessions *)
C19_Witness ==
  \E s \in saves :
    /\ s.phase = "upload" /\ s.course = 0
    /\ Len(s.before) = 3 /\ Len(s.content) = 2
    /\ AllAbsentZero(s.before[1])
    /\ s.content = <<s.before[2], s.before[3]>>

(* C20: the in-memory dataset of a course never holds two sessions of the  *)
(* same date, whatever taps and saves came before.                         *)
C20_OneSessionPerDate ==
  \A c \in Courses :
    LET ss == courseData[c].sessions IN
      \A i, j \in 1 .. Len(ss) : ss[i].date = ss[j].date => i = j

(* C20 witness: today's session was made by a tap, dropped by a save and   *)
(* made again by a later tap, and tapped once more                         *)
C20_Witness ==
  /\ remote[0].ver = 1
  /\ FindSession(remote[0].sessions, gridToday) = 0
  /\ dataVer[0] = 3
  /\ FindSession(courseData[0].sessions, gridToday) # 0
  /\ Len(courseData[0].sessions) = 2

(* C21: a download that fails with not-found makes loadCourseData return   *)
(* the no-data result and throw nothing; any other download failure is     *)
(* thrown on to the caller; a download that succeeds returns the document. *)
C21_NotFoundIsNoError ==
  /\ lastLoad.outcome = "not_found" => lastLoad.result = "null"
  /\ lastLoad.outcome = "error" => lastLoad.result = "throws"
  /\ lastLoad.outcome = "ok" => lastLoad.result = "data"
  /\ lastLoad.result \in {"none", "data", "null", "throws"}

(* C21 witness: the file of a course was not found, and the course is      *)
(* shown with no data                                                      *)
C21_Witness ==
  /\ lastLoad.outcome = "not_found" /\ lastLoad.result = "null"
  /\ gridCourse \in Courses
  /\ courseData[gridCourse] = NoData

(* C22: an upload carries the normalised in-memory dataset as it is when   *)
(* the attempt serialises it, with every tap made before that moment, and  *)
(* a successful upload leaves exactly that document in the remote store.   *)
C22_UploadCarriesCurrentData ==
  [][/\ \A s \in saves' \ saves :
          s.phase = "upload" =>
            /\ s.ver = dataVer[s.course]
            /\ s.content = MarkedSessions(courseData[s.course].sessions)
     /\ \A c \in Courses :
          remote'[c] # remote[c] =>
            \E s \in saves \ saves' :
              /\ s.phase = "upload" /\ s.course = c
              /\ remote'[c].sessions = s.content
              /\ remote'[c].ver = s.ver]_vars

(* C22 witness: the first save failed, a second tap was made before its    *)
(* retry, the second tap's own timer is still pending, and the retry of    *)
(* the first save has stored the dataset with both taps                    *)
C22_Witness ==
  /\ genLog.gen = 1 /\ genLog.fails = 1 /\ genLog.writes = 2
  /\ genLog.later
  /\ \E t \in timers : t.kind = "debounce" /\ t.generation = 2
  /\ \A s \in saves : s.generation # 1
  /\ \E c \in Courses :
       /\ genLog.course = c /\ dataVer[c] = 2
       /\ remote[c].ver = 2
       /\ remote[c].sessions = courseData[c].sessions

(* C23: ensureFreshToken() starts a refresh exactly when isAuthenticated() *)
(* is false and a refresh token is stored.  Otherwise the operation that   *)
(* called it goes on at once: its request is sent in the same step, no     *)
(* token is issued and the stored credentials and the clients stay as      *)
(* they are.  Tokens are issued to the running app only by a refresh that  *)
(* ensureFreshToken() started.                                             *)
C23_RefreshIffStaleAndRefreshable ==
  [][/\ \A l \in loads' \ loads :
          ~l.afterRefresh =>
            /\ l.phase = "refresh" <=>
                 ( /\ ~IsAuthenticated(localStorage', now)
                   /\ HasRefreshToken(localStorage') )
            /\ l.phase # "refresh" => l.phase = "download" /\ l.at = now
            /\ page = "app" =>
                 /\ localStorage' = localStorage
                 /\ tokensIssued' = tokensIssued
                 /\ auth_dbx' = auth_dbx /\ state_dbx' = state_dbx
     /\ (page = "app" /\ tokensIssued' # tokensIssued) =>
          \E l \in loads \ loads' : l.phase = "refresh"]_vars

(* C23 witness: a course tab was opened in the running app with the access *)
(* token inside its expiry buffer and a refresh token stored, and          *)
(* ensureFreshToken() has started the refresh                              *)
C23_Witness ==
  /\ page = "app"
  /\ ~IsAuthenticated(localStorage, now) /\ HasRefreshToken(localStorage)
  /\ \E l \in loads : l.phase = "refresh" /\ l.course # 0

(* C24: the save generation never decreases; a step changes it only by     *)
(* adding one, and does so exactly when a tap was handled, which calls     *)
(* scheduleSave once: timer callbacks, retries, refreshes and uploads,     *)
(* failed or not, leave it as it is.                                       *)
C24_GenerationCountsCalls ==
  [][/\ saveGeneration' >= saveGeneration
     /\ saveGeneration' \in {saveGeneration, saveGeneration + 1}
     /\ saveGeneration' = saveGeneration + 1 <=> dataVer' # dataVer
     /\ (timers' \subseteq timers /\ timers' # timers) =>
          saveGeneration' = saveGeneration
     /\ saves' # saves => saveGeneration' = saveGeneration]_vars

(* C24 witness: two taps were made, and both the first attempt and the     *)
(* retry of a save have failed: the counter reads two                      *)
C24_Witness ==
  /\ saveGeneration = 2
  /\ genLog.calls = 2 /\ genLog.fails = 2 /\ genLog.retries = 1
  /\ \E c \in Courses : dataVer[c] = 2

(* the debounce timers that are armed *)
Debounce == {t \in timers : t.kind = "debounce"}

(* C25: at most one debounce timer is armed at any time and it carries     *)
(* the current save generation, so the callback that runs finds its        *)
(* generation current; a callback whose generation differs starts no       *)
(* saveCourseData call, hence no refresh and no upload.                    *)
C25_OneDebounceTimer ==
  [][/\ Cardinality(Debounce) <= 1 /\ Cardinality(Debounce') <= 1
     /\ \A t \in Debounce' :
          /\ t.generation = saveGeneration'
          /\ saveTimeout' = t.generation
     /\ \A t \in Debounce \ Debounce' :
          ~IsCurrent(t.generation, saveGeneration') =>
            saves' = saves /\ tokensIssued' = tokensIssued]_vars

(* C25 witness: the second tap came while the first tap's timer was        *)
(* pending: that timer was cancelled, and the one timer armed carries      *)
(* generation two                                                          *)
C25_Witness ==
  /\ saveGeneration = 2
  /\ genLog.gen = 1 /\ genLog.superseded /\ genLog.calls = 0
  /\ Debounce # {}
  /\ \A t \in Debounce : t.generation = 2

====
